---- MODULE Spec2Model ----
(***************************************************************************)
(* Model of BirdListener: the capture callback (accumulator and chunk      *)
(* staging), the audio processing thread (dispatcher), the DatabaseWriter  *)
(* thread and the run()/stop() lifecycle of src/birdcode/birdlistener.py   *)
(* and src/database.py.                                                    *)
(*                                                                         *)
(* Units: confidences are in tenths (9 = 0.9); the writer's clock counts    *)
(* ticks, TicksPerSecond to the second, since last_flush_time.  Only        *)
(* waiting on a queue takes time.                                           *)
(***************************************************************************)
EXTENDS Integers, Sequences, FiniteSets, TLC

\* ---------------------------------------------------------------- bounds
MaxChunks == 2          \* staged chunks per run of the pipeline
MaxWriteFailures == 1   \* failed batch writes per run
MaxStageFailures == 1   \* failed stagings per run
MaxSamples == 15        \* samples fed to the capture callback
MaxFrameLen == 15       \* longest frame handed to the capture callback
MaxDetections == 4      \* detections put on the write queue of a stand-alone writer
TicksPerSecond == 4     \* resolution of the writer's clock

\* ---------------------------------------------------- program constants
ChunkSamples == 3       \* chunk_seconds * sample_rate (scaled)
DetectionThreshold == 5 \* detection_threshold, in tenths
batch_size == 2         \* default of DatabaseWriter batch_size (scaled)
flush_interval == 2     \* default of DatabaseWriter flush_interval, in seconds (scaled)

VARIABLES
    \* Lifecycle controller (BirdListener.run / BirdListener.stop)
    lcPc,               \* position of the thread that calls run() and stop()
    running,            \* BirdListener._running
    stream_active,      \* self._stream is started and active
    drain,              \* outcome of the drain wait: "pending", "drained", "expired"
    wJoin,              \* outcome of DatabaseWriter._thread.join
    dJoin,              \* outcome of _audio_process_thread.join
    \* Capture path
    audio_buffer,       \* self.audio_buffer, a sequence of ChunkSamples samples
    buffer_pos,         \* self._buffer_pos
    overlap_samples,    \* configured overlap_fraction * chunk_samples (never read)
    fed,                \* number of samples delivered to _callback so far
    emitted,            \* chunks handed to _save_chunk_to_queue, in order
    cbRaised,           \* number of _callback calls that raised
    stageFailures,      \* number of failed stagings
    openHandle,         \* the chunk whose temporary file the capture path has open, or 0
    nextChunk,          \* name of the next temporary file
    files,              \* temporary files that exist
    audio_chunk_queue,  \* self._audio_chunk_queue
    \* Audio processing thread (BirdListener._process_audio / analyze)
    dPc,                \* position of the audio processing thread
    dChunk,             \* audio_path held by the thread (0: none)
    dRows,              \* result_array of the chunk being analyzed
    dRow,               \* index of the next row of result_array
    classified,         \* history: one record per call of _model.predict
    removeCalls,        \* os.remove calls per temporary file
    db_write_queue,     \* self._db_write_queue
    config,             \* the config dict given to BirdListener.__init__
    \* DatabaseWriter
    w_running,          \* DatabaseWriter._running
    w_batch_size,       \* DatabaseWriter.batch_size
    w_flush_interval,   \* DatabaseWriter.flush_interval, in seconds
    wPc,                \* position of the writer thread
    buffer,             \* DatabaseWriter._buffer
    conn,               \* DatabaseWriter._conn: "none", "open", "closed"
    pending,            \* rows inserted in the open transaction, not committed
    commits,            \* committed transactions, each a sequence of rows
    sinceFlush,         \* ticks since last_flush_time
    writeFailures,      \* number of batch writes that raised sqlite3.Error
    \* Snapshots taken when stop is signalled
    pendingAtStop,      \* detections on the queue or in the buffer at DatabaseWriter.stop
    inFlightAtStop,     \* chunk being analyzed when BirdListener.stop began (0: none)
    stagedAtStop,       \* chunks on the staged-chunk queue when BirdListener.stop began
    busyAtDeadline      \* the drain deadline expired while the dispatcher was still working

lcVars == <<lcPc, running, stream_active, drain, wJoin, dJoin>>
accVars == <<audio_buffer, buffer_pos, overlap_samples, fed, emitted, cbRaised>>
stageVars == <<stageFailures, openHandle, nextChunk, files, audio_chunk_queue>>
dVars == <<dPc, dChunk, dRows, dRow, classified, removeCalls, db_write_queue>>
wConfig == <<config, w_batch_size, w_flush_interval>>
wVars == <<w_running, wPc, buffer, conn, pending, commits, sinceFlush, writeFailures, wConfig>>
snapVars == <<pendingAtStop, inFlightAtStop, stagedAtStop, busyAtDeadline>>
vars == <<lcVars, accVars, stageVars, dVars, wVars, snapVars>>

\* ------------------------------------------------------------- helpers
RECURSIVE Flatten(_)
Flatten(ss) == IF ss = <<>> THEN <<>> ELSE Head(ss) \o Flatten(Tail(ss))

Range(s) == {s[i] : i \in 1..Len(s)}

\* ------------------------------------------------- prediction payloads
\* A time value of a result row: a number, or a string split at ':' into
\* parts; a part that is not a number is written -1.
NumTime(v) == [kind |-> "num", v |-> v, parts |-> <<>>]
StrTime(parts) == [kind |-> "str", v |-> 0, parts |-> parts]

ParseError == -1

\* BirdListener._parse_time_to_seconds
parse_time_to_seconds(t) ==
    IF t.kind = "num" THEN t.v
    ELSE IF Len(t.parts) < 3 THEN ParseError
    ELSE IF \E i \in 1..3 : t.parts[i] < 0 THEN ParseError
    ELSE t.parts[1] * 3600 + t.parts[2] * 60 + t.parts[3]

Row(species, confidence, start, end) ==
    [species |-> species, confidence |-> confidence, start_time |-> start, end_time |-> end]

SparrowRow == Row("Sparrow", 9, StrTime(<<0, 0, 0>>), StrTime(<<0, 0, 3>>))
RobinRow == Row("Robin", 3, NumTime(3), NumTime(6))
EdgeRow == Row("Wren", 5, StrTime(<<0, 1, 0>>), NumTime(63))
OwlRow == Row("Owl", 7, NumTime(6), StrTime(<<1, 0, 9>>))
BadRow == Row("Finch", 9, StrTime(<<0, -1, 3>>), NumTime(3))
ShortRow == Row("Crow", 3, NumTime(0), StrTime(<<3>>))

\* result arrays the classifier returns in the pipeline specification
PipelineResults == { <<>>, <<SparrowRow>>, <<SparrowRow, BadRow>> }

\* result arrays the classifier returns in the analysis specification
AllRows == {SparrowRow, RobinRow, EdgeRow, OwlRow, BadRow, ShortRow}
AnalyzeResults ==
    {<<>>} \cup {<<r>> : r \in AllRows} \cup {<<r, s>> : r \in AllRows, s \in AllRows}

RowOk(row) ==
    /\ parse_time_to_seconds(row.start_time) # ParseError
    /\ parse_time_to_seconds(row.end_time) # ParseError

\* BirdDetection built by analyze() from row i of the chunk's result array
\* (chunk and idx identify the object; the wall-clock timestamp is left out)
BirdDetection(chunk, i, row) ==
    [chunk |-> chunk, idx |-> i, species |-> row.species, confidence |-> row.confidence,
     chunk_interval_sec |-> <<parse_time_to_seconds(row.start_time),
                              parse_time_to_seconds(row.end_time)>>]

\* a confidence test that lets the threshold itself pass
AboveThresholdInclusive(confidence) == confidence >= DetectionThreshold

\* the confidence test of analyze()
AboveThreshold(confidence) == confidence > DetectionThreshold


\* ------------------------------------------------------- initial state
\* The writer settings of a config dict; 0 stands for a key the dict does
\* not have.
OmittedConfig == [batch_size |-> 0, flush_interval |-> 0]

\* BirdListener.__init__ calls DatabaseWriter(db_file, self._db_write_queue):
\* no batch_size and no flush_interval argument, so the writer has the
\* defaults of DatabaseWriter.__init__ whatever the config holds
WriterBatchSize(cfg) == batch_size
WriterFlushInterval(cfg) == flush_interval

\* BirdListener.__init__ and DatabaseWriter.__init__
Constructed ==
    /\ lcPc = "constructed"
    /\ running = FALSE
    /\ stream_active = FALSE
    /\ drain = "pending"
    /\ wJoin = "none"
    /\ dJoin = "none"
    /\ audio_buffer = [i \in 1..ChunkSamples |-> 0]
    /\ buffer_pos = 0
    /\ overlap_samples = 0
    /\ fed = 0
    /\ emitted = <<>>
    /\ cbRaised = 0
    /\ stageFailures = 0
    /\ openHandle = 0
    /\ nextChunk = 1
    /\ files = {}
    /\ audio_chunk_queue = <<>>
    /\ dPc = "notstarted"
    /\ dChunk = 0
    /\ dRows = <<>>
    /\ dRow = 0
    /\ classified = <<>>
    /\ removeCalls = <<>>
    /\ db_write_queue = <<>>
    /\ w_running = FALSE
    /\ w_batch_size = WriterBatchSize(config)
    /\ w_flush_interval = WriterFlushInterval(config)
    /\ wPc = "notstarted"
    /\ buffer = <<>>
    /\ conn = "none"
    /\ pending = <<>>
    /\ commits = <<>>
    /\ sinceFlush = 0
    /\ writeFailures = 0
    /\ pendingAtStop = {}
    /\ inFlightAtStop = 0
    /\ stagedAtStop = {}
    /\ busyAtDeadline = FALSE

\* a listener constructed from a config without writer settings
Init ==
    /\ config = OmittedConfig
    /\ Constructed

\* ----------------------------------------------------------- capture
StagingOutcomes ==
    {"ok"} \cup (IF stageFailures < MaxStageFailures THEN {"write_error"} ELSE {})

\* BirdListener._save_chunk_to_queue: the temporary file is created, then
\* written; its name is queued only when the write did not raise.  The put
\* is inside the `with` block that holds the file open.
save_chunk_to_queue(outcome) ==
    /\ nextChunk' = nextChunk + 1
    /\ files' = files \cup {nextChunk}
    /\ removeCalls' = Append(removeCalls, 0)
    /\ IF outcome = "ok"
       THEN /\ audio_chunk_queue' = Append(audio_chunk_queue, nextChunk)
            /\ stageFailures' = stageFailures
       ELSE /\ audio_chunk_queue' = audio_chunk_queue
            /\ stageFailures' = stageFailures + 1

\* self._audio_chunk_queue.put(tmpfile.name) is a statement of the `with`
\* block: when the path goes on the queue the capture path still has the
\* file open
HandleAfterPut(chunk) == chunk

\* A capture callback that completes a chunk, seen from the pipeline: the
\* chunk is staged while the stream is active.  This is the whole call of
\* _save_chunk_to_queue: when it returns the file is closed again.
SaveChunk ==
    /\ stream_active
    /\ nextChunk <= MaxChunks
    /\ \E outcome \in StagingOutcomes : save_chunk_to_queue(outcome)
    /\ openHandle' = openHandle
    /\ UNCHANGED <<lcVars, accVars, wVars, snapVars>>
    /\ UNCHANGED <<dPc, dChunk, dRows, dRow, classified, db_write_queue>>

\* The same call up to the put.  A write that raises leaves the `with`
\* block, which closes the file, before it is caught.
SaveChunkPut ==
    /\ stream_active
    /\ nextChunk <= MaxChunks
    /\ openHandle = 0
    /\ \E outcome \in StagingOutcomes :
         /\ save_chunk_to_queue(outcome)
         /\ openHandle' = IF outcome = "ok" THEN HandleAfterPut(nextChunk) ELSE 0
    /\ UNCHANGED <<lcVars, accVars, wVars, snapVars>>
    /\ UNCHANGED <<dPc, dChunk, dRows, dRow, classified, db_write_queue>>

\* the capture callback leaves the `with` block: the file is closed
SaveChunkExit ==
    /\ openHandle # 0
    /\ openHandle' = 0
    /\ UNCHANGED <<lcVars, accVars, dVars, wVars, snapVars>>
    /\ UNCHANGED <<stageFailures, nextChunk, files, audio_chunk_queue>>

\* the samples of a frame of n samples: the next n samples of the stream
Samples(n) == [i \in 1..n |-> fed + i]

\* the buffer after writing src[from+1 .. from+cnt] at positions at+1 .. at+cnt
CopyInto(buf, at, src, from, cnt) ==
    [i \in 1..Len(buf) |-> IF i > at /\ i <= at + cnt THEN src[from + (i - at)] ELSE buf[i]]

\* a test that lets a frame fill the buffer on the common path
FitsInBufferInclusive(end) == end <= ChunkSamples

\* the test of _callback that sends the frame down the common path
FitsInBuffer(end) == end < ChunkSamples

\* a leftover taken from the start of the frame
LeftoverFromStart(fit) == 0

\* samples[fit:], the leftover of the frame: what follows the fit samples
\* that completed the chunk
LeftoverFrom(fit) == fit

\* the slice assignment audio_buffer[:remainder] = samples[fit:] raises
\* ValueError when the leftover is longer than the buffer
LeftoverFits(remainder) == remainder <= ChunkSamples

\* a cursor reset that drops the leftover of the frame
CursorAfterEmitZero(remainder) == 0

\* self._buffer_pos = remainder
CursorAfterEmit(remainder) == remainder

\* BirdListener._callback with a frame of n samples
Callback(n) ==
    /\ stream_active
    /\ fed + n <= MaxSamples
    /\ fed' = fed + n
    /\ LET samples == Samples(n)
           end == buffer_pos + n
       IN IF FitsInBuffer(end)
          THEN /\ audio_buffer' = CopyInto(audio_buffer, buffer_pos, samples, 0, n)
               /\ buffer_pos' = end
               /\ UNCHANGED <<emitted, cbRaised, stageVars, removeCalls>>
          ELSE LET fit == ChunkSamples - buffer_pos
                   filled == CopyInto(audio_buffer, buffer_pos, samples, 0, fit)
                   remainder == n - fit
               IN /\ emitted' = Append(emitted, filled)
                  /\ \E outcome \in StagingOutcomes : save_chunk_to_queue(outcome)
                  /\ IF LeftoverFits(remainder)
                     THEN /\ audio_buffer' = CopyInto(filled, 0, samples, LeftoverFrom(fit), remainder)
                          /\ buffer_pos' = CursorAfterEmit(remainder)
                          /\ cbRaised' = cbRaised
                     ELSE /\ audio_buffer' = filled
                          /\ buffer_pos' = buffer_pos
                          /\ cbRaised' = cbRaised + 1
    /\ UNCHANGED <<lcVars, wVars, snapVars, overlap_samples, openHandle>>
    /\ UNCHANGED <<dPc, dChunk, dRows, dRow, classified, db_write_queue>>

\* ------------------------------------------- audio processing thread
\* a handler that never finds the file, and so never removes it
HandlerFindsFileNever(path) == FALSE

\* os.path.exists(audio_path) in the handler of _process_audio
HandlerFindsFile(path) == path \in files

\* os.remove(audio_path)
os_remove(path) ==
    /\ files' = files \ {path}
    /\ removeCalls' = [removeCalls EXCEPT ![path] = @ + 1]

\* a loop test that does not look at the run flag
RunFlagIgnored(flag) == TRUE

\* the loop test of both workers, `while self._running`, reads the flag
\* once per iteration
RunFlagSeen(flag) == flag

\* while self._running
DCheck ==
    /\ dPc = "check"
    /\ dPc' = IF RunFlagSeen(running) THEN "get" ELSE "exited"
    /\ UNCHANGED <<lcVars, accVars, stageVars, wVars, snapVars>>
    /\ UNCHANGED <<dChunk, dRows, dRow, classified, removeCalls, db_write_queue>>

\* a queue that hands out its newest entry
QueueGetIndexNewest(q) == Len(q)

\* queue.Queue is first in, first out: get() returns the oldest entry
QueueGetIndex(q) == 1

\* the queue q without its entry at position i
RemoveAt(q, i) == SubSeq(q, 1, i - 1) \o SubSeq(q, i + 1, Len(q))

\* self._audio_chunk_queue.get(timeout=5) returns a path
DGet ==
    /\ dPc = "get"
    /\ audio_chunk_queue # <<>>
    /\ dChunk' = audio_chunk_queue[QueueGetIndex(audio_chunk_queue)]
    /\ audio_chunk_queue' = RemoveAt(audio_chunk_queue, QueueGetIndex(audio_chunk_queue))
    /\ dPc' = "predict"
    /\ UNCHANGED <<lcVars, accVars, wVars, snapVars>>
    /\ UNCHANGED <<stageFailures, openHandle, nextChunk, files>>
    /\ UNCHANGED <<dRows, dRow, classified, removeCalls, db_write_queue>>

\* the get times out with queue.Empty: continue
DTimeout ==
    /\ dPc = "get"
    /\ audio_chunk_queue = <<>>
    /\ dPc' = "check"
    /\ UNCHANGED <<lcVars, accVars, stageVars, wVars, snapVars>>
    /\ UNCHANGED <<dChunk, dRows, dRow, classified, removeCalls, db_write_queue>>

\* a classifier error that ends the worker thread
AfterClassifierErrorDies == "exited"

\* where the worker goes after analyze() caught a classifier error
AfterClassifierError == "check"

\* analyze(): self._model.predict raises; the file is removed and analyze
\* returns to the worker loop
DPredictRaises ==
    /\ dPc = "predict"
    /\ classified' = Append(classified, [chunk |-> dChunk, raised |-> TRUE, rows |-> <<>>])
    /\ os_remove(dChunk)
    /\ dPc' = AfterClassifierError
    /\ dChunk' = 0
    /\ UNCHANGED <<lcVars, accVars, wVars, snapVars>>
    /\ UNCHANGED <<stageFailures, openHandle, nextChunk, audio_chunk_queue>>
    /\ UNCHANGED <<dRows, dRow, db_write_queue>>

\* analyze(): self._model.predict returns a result array
DPredict(results) ==
    /\ dPc = "predict"
    /\ \E rows \in results :
         /\ classified' = Append(classified, [chunk |-> dChunk, raised |-> FALSE, rows |-> rows])
         /\ dRows' = rows
    /\ dRow' = 1
    /\ dPc' = "rows"
    /\ UNCHANGED <<lcVars, accVars, stageVars, wVars, snapVars>>
    /\ UNCHANGED <<dChunk, removeCalls, db_write_queue>>

\* analyze(): one iteration of the loop over result_array.  A row whose
\* times do not parse raises out of analyze(); the handler of
\* _process_audio removes the file if it exists.
DRow ==
    /\ dPc = "rows"
    /\ dRow <= Len(dRows)
    /\ LET row == dRows[dRow]
       IN IF ~RowOk(row)
          THEN /\ IF HandlerFindsFile(dChunk)
                  THEN os_remove(dChunk)
                  ELSE UNCHANGED <<files, removeCalls>>
               /\ dPc' = "check"
               /\ dChunk' = 0
               /\ dRows' = <<>>
               /\ dRow' = 0
               /\ UNCHANGED db_write_queue
          ELSE /\ db_write_queue' =
                    IF AboveThreshold(row.confidence)
                    THEN Append(db_write_queue, BirdDetection(dChunk, dRow, row))
                    ELSE db_write_queue
               /\ dRow' = dRow + 1
               /\ UNCHANGED <<dPc, dChunk, dRows, files, removeCalls>>
    /\ UNCHANGED <<lcVars, accVars, wVars, snapVars>>
    /\ UNCHANGED <<stageFailures, openHandle, nextChunk, audio_chunk_queue, classified>>

\* analyze(): the loop is over; the file is removed; task_done()
DFinish ==
    /\ dPc = "rows"
    /\ dRow > Len(dRows)
    /\ os_remove(dChunk)
    /\ dPc' = "check"
    /\ dChunk' = 0
    /\ dRows' = <<>>
    /\ dRow' = 0
    /\ UNCHANGED <<lcVars, accVars, wVars, snapVars>>
    /\ UNCHANGED <<stageFailures, openHandle, nextChunk, audio_chunk_queue>>
    /\ UNCHANGED <<classified, db_write_queue>>


\* ------------------------------------------------------ DatabaseWriter
\* outcomes of one batch write: it succeeds, or sqlite3.Error is raised
WriteOutcomes ==
    {"ok"} \cup (IF writeFailures < MaxWriteFailures THEN {"error"} ELSE {})

\* a failed write that drops the batch
BufferAfterFailedWriteDrops(buf) == <<>>

\* except sqlite3.Error in _write_batch: the error is logged, the buffer is
\* not touched
BufferAfterFailedWrite(buf) == buf

\* d.chunk_interval_sec[0] and d.chunk_interval_sec[1] in the parameter list
\* of _write_batch raise IndexError for a detection whose interval is not a
\* pair
Malformed(d) == Len(d.chunk_interval_sec) < 2

\* The parameter list is built from the whole buffer before executemany is
\* called: an exception from it is not a sqlite3.Error, so it leaves
\* _write_batch
WriteRaises(buf) == \E i \in 1..Len(buf) : Malformed(buf[i])

\* DatabaseWriter._write_batch on the buffer buf.  A successful write
\* commits the open transaction and clears the buffer.  A write that raises
\* after k rows were inserted leaves those rows in the open transaction and
\* keeps the buffer.  When building the parameter list raises, nothing was
\* inserted and the buffer is kept.
write_batch(buf, outcome, k) ==
    IF buf = <<>>
    THEN /\ buffer' = buf
         /\ UNCHANGED <<pending, commits, writeFailures>>
    ELSE IF WriteRaises(buf)
    THEN /\ buffer' = buf
         /\ UNCHANGED <<pending, commits, writeFailures>>
    ELSE IF outcome = "ok"
    THEN /\ commits' = Append(commits, pending \o buf)
         /\ pending' = <<>>
         /\ buffer' = <<>>
         /\ writeFailures' = writeFailures
    ELSE /\ pending' = pending \o SubSeq(buf, 1, k)
         /\ buffer' = BufferAfterFailedWrite(buf)
         /\ writeFailures' = writeFailures + 1
         /\ commits' = commits

\* a writer that leaves its loop without the final flush
AfterWriterStopSeenSkipsFlush == "close"

\* where the writer loop goes when it finds _running cleared
AfterWriterStopSeen == "final"

\* DatabaseWriter._initialize_db at the head of _run_writer_loop: on
\* sqlite3.Error the exception leaves the thread's target and the thread ends
WInitializeDb ==
    /\ wPc = "init"
    /\ \/ /\ conn' = "open"
          /\ wPc' = "check"
       \/ /\ conn' \in {"none", "open"}
          /\ wPc' = "dead"
    /\ UNCHANGED <<lcVars, accVars, stageVars, dVars, snapVars>>
    /\ UNCHANGED <<w_running, buffer, pending, commits, sinceFlush, writeFailures, wConfig>>

\* while self._running
WCheck ==
    /\ wPc = "check"
    /\ wPc' = IF RunFlagSeen(w_running) THEN "get" ELSE AfterWriterStopSeen
    /\ UNCHANGED <<lcVars, accVars, stageVars, dVars, snapVars>>
    /\ UNCHANGED <<w_running, buffer, conn, pending, commits, sinceFlush, writeFailures, wConfig>>

\* the timeout of self.write_queue.get(timeout=1), in ticks
QueueWait == 1 * TicksPerSecond

\* how long a get that returns a detection may have waited: any time
\* shorter than the timeout
GetWaits == {0, QueueWait - 1}

\* the clock is not read beyond the first tick that is later than
\* flush_interval plus one queue wait
ElapsedCap == w_flush_interval * TicksPerSecond + QueueWait + 1

\* (now - last_flush_time) after waiting w more ticks
Elapsed(w) == IF sinceFlush + w > ElapsedCap THEN ElapsedCap ELSE sinceFlush + w

\* a buffer that takes the newest detection first
AppendToBufferFront(buf, detection) == <<detection>> \o buf

\* self._buffer.append(detection)
AppendToBuffer(buf, detection) == Append(buf, detection)

\* a size test that lets the batch grow one past batch_size
BatchFullLate(buf) == Len(buf) > w_batch_size

\* len(self._buffer) >= self.batch_size
BatchFull(buf) == Len(buf) >= w_batch_size

\* an interval test that never passes
IntervalElapsedNever(elapsed) == FALSE

\* (now - last_flush_time).total_seconds() >= self.flush_interval
IntervalElapsed(elapsed) == elapsed >= w_flush_interval * TicksPerSecond

\* the idle flush is called in the `except queue.Empty` handler: what it
\* raises is not caught by the `except Exception` next to it and ends the
\* thread
AfterIdleFlushRaises == "dead"

\* self.write_queue.get(timeout=1) returns a detection after a wait drawn
\* from waits: the detection arrived that long after the get began.  The
\* put is a step of its own, which a behaviour may show before the get.
\* What the batch-size flush raises is caught by `except Exception` before
\* last_flush_time is reset.
WGet(waits) ==
    /\ wPc = "get"
    /\ db_write_queue # <<>>
    /\ db_write_queue' = Tail(db_write_queue)
    /\ LET buf == AppendToBuffer(buffer, Head(db_write_queue))
       IN IF BatchFull(buf)
          THEN /\ \E outcome \in WriteOutcomes, k \in 0..Len(buf) : write_batch(buf, outcome, k)
               /\ IF WriteRaises(buf)
                  THEN \E w \in waits : sinceFlush' = Elapsed(w)
                  ELSE sinceFlush' = 0
          ELSE /\ buffer' = buf
               /\ \E w \in waits : sinceFlush' = Elapsed(w)
               /\ UNCHANGED <<pending, commits, writeFailures>>
    /\ wPc' = "check"
    /\ UNCHANGED <<lcVars, accVars, stageVars, snapVars>>
    /\ UNCHANGED <<dPc, dChunk, dRows, dRow, classified, removeCalls>>
    /\ UNCHANGED <<w_running, conn, wConfig>>

\* the get times out with queue.Empty
WTimeout ==
    /\ wPc = "get"
    /\ db_write_queue = <<>>
    /\ IF IntervalElapsed(Elapsed(QueueWait))
       THEN /\ \E outcome \in WriteOutcomes, k \in 0..Len(buffer) : write_batch(buffer, outcome, k)
            /\ IF WriteRaises(buffer)
               THEN /\ sinceFlush' = Elapsed(QueueWait)
                    /\ wPc' = AfterIdleFlushRaises
               ELSE /\ sinceFlush' = 0
                    /\ wPc' = "check"
       ELSE /\ sinceFlush' = Elapsed(QueueWait)
            /\ wPc' = "check"
            /\ UNCHANGED <<buffer, pending, commits, writeFailures>>
    /\ UNCHANGED <<lcVars, accVars, stageVars, dVars, snapVars>>
    /\ UNCHANGED <<w_running, conn, wConfig>>

\* after the loop: self._write_batch(); what it raises ends the thread
\* before self._conn.close()
WFinalFlush ==
    /\ wPc = "final"
    /\ \E outcome \in WriteOutcomes, k \in 0..Len(buffer) : write_batch(buffer, outcome, k)
    /\ wPc' = IF WriteRaises(buffer) THEN "dead" ELSE "close"
    /\ UNCHANGED <<lcVars, accVars, stageVars, dVars, snapVars>>
    /\ UNCHANGED <<w_running, conn, sinceFlush, wConfig>>

\* self._conn.close(): the open transaction is rolled back
WClose ==
    /\ wPc = "close"
    /\ conn' = IF conn = "open" THEN "closed" ELSE conn
    /\ pending' = <<>>
    /\ wPc' = "exited"
    /\ UNCHANGED <<lcVars, accVars, stageVars, dVars, snapVars>>
    /\ UNCHANGED <<w_running, buffer, commits, sinceFlush, writeFailures, wConfig>>

\* ------------------------------------------------ lifecycle controller
\* the thread run() starts right after DatabaseWriter.start() returned,
\* whatever became of the writer thread
DispatcherStartedByRun == "check"

\* BirdListener.run: self._running = True; self._db_writer.start()
RunStartWriter ==
    /\ lcPc = "constructed"
    /\ running' = TRUE
    /\ w_running' = TRUE
    /\ wPc' = "init"
    /\ lcPc' = "run_thread"
    /\ UNCHANGED <<accVars, stageVars, dVars, snapVars>>
    /\ UNCHANGED <<stream_active, drain, wJoin, dJoin>>
    /\ UNCHANGED <<buffer, conn, pending, commits, sinceFlush, writeFailures, wConfig>>

\* BirdListener.run: start the audio processing thread
RunStartDispatcher ==
    /\ lcPc = "run_thread"
    /\ dPc' = DispatcherStartedByRun
    /\ lcPc' = "run_listen"
    /\ UNCHANGED <<accVars, stageVars, wVars, snapVars>>
    /\ UNCHANGED <<running, stream_active, drain, wJoin, dJoin>>
    /\ UNCHANGED <<dChunk, dRows, dRow, classified, removeCalls, db_write_queue>>

\* BirdListener.listen: the stream starts, or the failure is logged and
\* _running is cleared
RunListen ==
    /\ lcPc = "run_listen"
    /\ \/ /\ stream_active' = TRUE
          /\ running' = running
       \/ /\ stream_active' = FALSE
          /\ running' = FALSE
    /\ lcPc' = "serving"
    /\ UNCHANGED <<accVars, stageVars, dVars, wVars, snapVars>>
    /\ UNCHANGED <<drain, wJoin, dJoin>>

\* the chunk the audio processing thread holds
InFlight == IF dPc \in {"predict", "rows"} THEN dChunk ELSE 0

\* BirdListener.stop: self._running = False
StopSignal ==
    /\ lcPc = "serving"
    /\ running' = FALSE
    /\ inFlightAtStop' = InFlight
    /\ stagedAtStop' = Range(audio_chunk_queue)
    /\ lcPc' = "stop_stream"
    /\ UNCHANGED <<accVars, stageVars, dVars, wVars>>
    /\ UNCHANGED <<stream_active, drain, wJoin, dJoin>>
    /\ UNCHANGED <<pendingAtStop, busyAtDeadline>>

\* BirdListener.stop, step 1: stop and close the stream if it is active
StopStream ==
    /\ lcPc = "stop_stream"
    /\ stream_active' = FALSE
    /\ lcPc' = "stop_drain"
    /\ UNCHANGED <<accVars, stageVars, dVars, wVars, snapVars>>
    /\ UNCHANGED <<running, drain, wJoin, dJoin>>

\* a thread that has not ended
DispatcherAlive == dPc \notin {"notstarted", "exited"}
WriterAlive == wPc \notin {"notstarted", "exited", "dead"}

\* BirdListener.stop, step 2: the wait loop ends with the queue empty
StopDrained ==
    /\ lcPc = "stop_drain"
    /\ audio_chunk_queue = <<>>
    /\ drain' = "drained"
    /\ lcPc' = "stop_writer"
    /\ UNCHANGED <<accVars, stageVars, dVars, wVars, snapVars>>
    /\ UNCHANGED <<running, stream_active, wJoin, dJoin>>

\* BirdListener.stop, step 2: the deadline passes with the queue not empty
StopDeadline ==
    /\ lcPc = "stop_drain"
    /\ audio_chunk_queue # <<>>
    /\ drain' = "expired"
    /\ busyAtDeadline' = DispatcherAlive
    /\ lcPc' = "stop_writer"
    /\ UNCHANGED <<accVars, stageVars, dVars, wVars>>
    /\ UNCHANGED <<running, stream_active, wJoin, dJoin>>
    /\ UNCHANGED <<pendingAtStop, inFlightAtStop, stagedAtStop>>

\* DatabaseWriter.stop: self._running = False
WriterStop ==
    /\ lcPc = "stop_writer"
    /\ w_running' = FALSE
    /\ pendingAtStop' = Range(db_write_queue) \cup Range(buffer)
    /\ lcPc' = "stop_writer_join"
    /\ UNCHANGED <<accVars, stageVars, dVars>>
    /\ UNCHANGED <<running, stream_active, drain, wJoin, dJoin>>
    /\ UNCHANGED <<wPc, buffer, conn, pending, commits, sinceFlush, writeFailures, wConfig>>
    /\ UNCHANGED <<inFlightAtStop, stagedAtStop, busyAtDeadline>>

\* a join without a timeout, which returns only once the thread has ended
JoinReturnsWhenEnded(alive) == ~alive

\* Thread.join(timeout=...) returns when the thread has ended or the
\* timeout has passed, whichever is first
JoinReturns(alive) == TRUE

\* self._thread is assigned by DatabaseWriter.start() and nowhere else:
\* __init__ does not create the attribute
ThreadAttributeSet == wPc # "notstarted"

\* DatabaseWriter.stop: self._thread.join(timeout=flush_interval + 5); on a
\* writer that was never started, reading self._thread raises
\* AttributeError, which leaves DatabaseWriter.stop and BirdListener.stop
WriterJoin ==
    /\ lcPc = "stop_writer_join"
    /\ JoinReturns(WriterAlive)
    /\ IF ThreadAttributeSet
       THEN /\ wJoin' = IF WriterAlive THEN "timeout" ELSE "joined"
            /\ lcPc' = "stop_join"
       ELSE /\ wJoin' = "raised"
            /\ lcPc' = "stop_raised"
    /\ UNCHANGED <<accVars, stageVars, dVars, wVars, snapVars>>
    /\ UNCHANGED <<running, stream_active, drain, dJoin>>

\* BirdListener.stop, step 4: join the audio processing thread (timeout=5)
DispatcherJoin ==
    /\ lcPc = "stop_join"
    /\ JoinReturns(DispatcherAlive)
    /\ dJoin' = IF DispatcherAlive THEN "timeout" ELSE "joined"
    /\ lcPc' = "stopped"
    /\ UNCHANGED <<accVars, stageVars, dVars, wVars, snapVars>>
    /\ UNCHANGED <<running, stream_active, drain, wJoin>>

\* ------------------------------------------------------ specifications
Next ==
    \/ RunStartWriter
    \/ RunStartDispatcher
    \/ RunListen
    \/ StopSignal
    \/ StopStream
    \/ StopDrained
    \/ StopDeadline
    \/ WriterStop
    \/ WriterJoin
    \/ DispatcherJoin
    \/ SaveChunk
    \/ DCheck
    \/ DGet
    \/ DTimeout
    \/ DPredictRaises
    \/ DPredict(PipelineResults)
    \/ DRow
    \/ DFinish
    \/ WInitializeDb
    \/ WCheck
    \/ WGet(GetWaits)
    \/ WTimeout
    \/ WFinalFlush
    \/ WClose

Spec == Init /\ [][Next]_vars


\* the state run() leaves behind when the stream started: both threads are
\* started and have not run yet; buf is the audio buffer that __init__
\* allocated
Serving(buf) ==
    /\ lcPc = "serving"
    /\ running = TRUE
    /\ stream_active = TRUE
    /\ drain = "pending"
    /\ wJoin = "none"
    /\ dJoin = "none"
    /\ audio_buffer = buf
    /\ buffer_pos = 0
    /\ fed = 0
    /\ emitted = <<>>
    /\ cbRaised = 0
    /\ stageFailures = 0
    /\ openHandle = 0
    /\ nextChunk = 1
    /\ files = {}
    /\ audio_chunk_queue = <<>>
    /\ dPc = "check"
    /\ dChunk = 0
    /\ dRows = <<>>
    /\ dRow = 0
    /\ classified = <<>>
    /\ removeCalls = <<>>
    /\ db_write_queue = <<>>
    /\ w_running = TRUE
    /\ wPc = "init"
    /\ config = OmittedConfig
    /\ w_batch_size = WriterBatchSize(config)
    /\ w_flush_interval = WriterFlushInterval(config)
    /\ buffer = <<>>
    /\ conn = "none"
    /\ pending = <<>>
    /\ commits = <<>>
    /\ sinceFlush = 0
    /\ writeFailures = 0
    /\ pendingAtStop = {}
    /\ inFlightAtStop = 0
    /\ stagedAtStop = {}
    /\ busyAtDeadline = FALSE

\* self.audio_buffer = np.zeros(self.chunk_samples, dtype='float32')
InitServing == Serving([i \in 1..ChunkSamples |-> 0])

\* The audio processing thread alone, with every result array of
\* AnalyzeResults: capture stages chunks, the thread analyzes them, stop()
\* may clear the run flag.
InitAnalyze == InitServing /\ overlap_samples = 0

DispatcherStep ==
    \/ DCheck
    \/ DGet
    \/ DTimeout
    \/ DPredictRaises
    \/ DPredict(AnalyzeResults)
    \/ DRow
    \/ DFinish

NextAnalyze ==
    \/ SaveChunk
    \/ StopSignal
    \/ DCheck
    \/ DGet
    \/ DTimeout
    \/ DPredictRaises
    \/ DPredict(AnalyzeResults)
    \/ DRow
    \/ DFinish

SpecAnalyze == InitAnalyze /\ [][NextAnalyze]_vars

\* the audio processing thread is a thread of its own: it is scheduled as
\* long as it has a step to take
FairAnalyze == SpecAnalyze /\ WF_vars(DispatcherStep)

\* The capture path and the audio processing thread with the staging call
\* in two steps, the put and the end of the `with` block, between which the
\* thread may run.
NextStaging ==
    \/ SaveChunkPut
    \/ SaveChunkExit
    \/ DispatcherStep

SpecStaging == InitAnalyze /\ [][NextStaging]_vars

\* The capture callback alone: frames of every length up to MaxFrameLen,
\* under each configured overlap.
InitAcc == InitServing /\ overlap_samples \in {0, 1}

NextAcc == \E n \in 1..MaxFrameLen : Callback(n)

SpecAcc == InitAcc /\ [][NextAcc]_vars

\* The accumulator fed frames of at most chunk_samples samples.
NextAccFit == \E n \in 1..ChunkSamples : Callback(n)

SpecAccFit == InitAcc /\ [][NextAccFit]_vars

\* A DatabaseWriter on its own, as tests/unit/test_database.py drives it:
\* constructed with its own batch_size and flush_interval and started; its
\* owner puts detections on the write queue and calls stop() when it likes.
\* The listener around it takes no step.
WriterBatchSizes == {batch_size, 2 * batch_size}
WriterFlushIntervals == {1, flush_interval}

InitWriter ==
    /\ lcPc = "stop_writer"
    /\ running = FALSE
    /\ stream_active = FALSE
    /\ drain = "drained"
    /\ wJoin = "none"
    /\ dJoin = "none"
    /\ audio_buffer = [i \in 1..ChunkSamples |-> 0]
    /\ buffer_pos = 0
    /\ overlap_samples = 0
    /\ fed = 0
    /\ emitted = <<>>
    /\ cbRaised = 0
    /\ stageFailures = 0
    /\ openHandle = 0
    /\ nextChunk = 1
    /\ files = {}
    /\ audio_chunk_queue = <<>>
    /\ dPc = "notstarted"
    /\ dChunk = 0
    /\ dRows = <<>>
    /\ dRow = 0
    /\ classified = <<>>
    /\ removeCalls = <<>>
    /\ db_write_queue = <<>>
    /\ w_running = TRUE
    /\ wPc = "init"
    /\ config = OmittedConfig
    /\ w_batch_size \in WriterBatchSizes
    /\ w_flush_interval \in WriterFlushIntervals
    /\ buffer = <<>>
    /\ conn = "none"
    /\ pending = <<>>
    /\ commits = <<>>
    /\ sinceFlush = 0
    /\ writeFailures = 0
    /\ pendingAtStop = {}
    /\ inFlightAtStop = 0
    /\ stagedAtStop = {}
    /\ busyAtDeadline = FALSE

Committed == Range(Flatten(commits))
AllDetections == Range(db_write_queue) \cup Range(buffer) \cup Committed

\* write_queue.put(detection) by the owner of the writer; the detections are
\* numbered in the order they are put
Put ==
    /\ Cardinality(AllDetections) < MaxDetections
    /\ db_write_queue' =
           Append(db_write_queue, BirdDetection(0, Cardinality(AllDetections) + 1, SparrowRow))
    /\ UNCHANGED <<lcVars, accVars, stageVars, wVars, snapVars>>
    /\ UNCHANGED <<dPc, dChunk, dRows, dRow, classified, removeCalls>>

WriterStep ==
    \/ WInitializeDb
    \/ WCheck
    \/ WGet(GetWaits)
    \/ WTimeout
    \/ WFinalFlush
    \/ WClose

NextWriter ==
    \/ Put
    \/ WriterStep
    \/ WriterStop
    \/ WriterJoin

SpecWriter == InitWriter /\ [][NextWriter]_vars

\* the writer thread is scheduled again and again
FairWriter == SpecWriter /\ WF_vars(WriterStep)

\* The prototype listener (src/birdlistener.py).  Its audio_buffer is a
\* deque(maxlen=chunk_samples), here the sequence of its elements, oldest
\* first.
\* deque.extend on a bounded deque: when the deque is full, an element is
\* discarded from the left for each one appended
DequeExtend(dq, xs) ==
    LET all == dq \o xs
    IN IF Len(all) > ChunkSamples
       THEN SubSeq(all, Len(all) - ChunkSamples + 1, Len(all))
       ELSE all

\* BirdListener._callback of the prototype: extend the deque by the frame;
\* when it holds chunk_samples elements, pop them from the left and stage
\* them.  _save_chunk_to_queue of the prototype has no handler: a staging
\* error is raised to the callback.
CallbackProto(n) ==
    /\ stream_active
    /\ fed + n <= MaxSamples
    /\ fed' = fed + n
    /\ LET extended == DequeExtend(audio_buffer, Samples(n))
       IN IF Len(extended) >= ChunkSamples
          THEN /\ emitted' = Append(emitted, SubSeq(extended, 1, ChunkSamples))
               /\ audio_buffer' = SubSeq(extended, ChunkSamples + 1, Len(extended))
               /\ \E outcome \in StagingOutcomes :
                    /\ save_chunk_to_queue(outcome)
                    /\ cbRaised' = IF outcome = "ok" THEN cbRaised ELSE cbRaised + 1
          ELSE /\ audio_buffer' = extended
               /\ UNCHANGED <<emitted, cbRaised, stageVars, removeCalls>>
    /\ UNCHANGED <<lcVars, wVars, snapVars, buffer_pos, overlap_samples, openHandle>>
    /\ UNCHANGED <<dPc, dChunk, dRows, dRow, classified, db_write_queue>>

\* self.audio_buffer = deque(maxlen=self.chunk_samples)
InitProto == Serving(<<>>) /\ overlap_samples = 0

\* the stream hands over frames of at most chunk_samples samples (the
\* prototype's blocksize is far below its chunk_samples)
NextProto == \E n \in 1..ChunkSamples : CallbackProto(n)

SpecProto == InitProto /\ [][NextProto]_vars

\* A writer whose owner also puts detections whose chunk_interval_sec is
\* not a pair.
MalformedDetection(i) ==
    [BirdDetection(0, i, SparrowRow) EXCEPT !.chunk_interval_sec = <<>>]

PutMalformed ==
    /\ Cardinality(AllDetections) < MaxDetections
    /\ db_write_queue' =
           Append(db_write_queue, MalformedDetection(Cardinality(AllDetections) + 1))
    /\ UNCHANGED <<lcVars, accVars, stageVars, wVars, snapVars>>
    /\ UNCHANGED <<dPc, dChunk, dRows, dRow, classified, removeCalls>>

NextWriterAny ==
    \/ NextWriter
    \/ PutMalformed

SpecWriterAny == InitWriter /\ [][NextWriterAny]_vars

\* A listener constructed from a config that may give batch_size and
\* flush_interval: run() starts its writer and detections arrive on the write
\* queue; stop() is not called.
ConfigBatchSizes == {0, 1, 3}
ConfigFlushIntervals == {0, 1, 3}
Configs == [batch_size : ConfigBatchSizes, flush_interval : ConfigFlushIntervals]

InitConfig ==
    /\ config \in Configs
    /\ Constructed

NextConfig ==
    \/ RunStartWriter
    \/ Put
    \/ WInitializeDb
    \/ WCheck
    \/ WGet(GetWaits)
    \/ WTimeout

SpecConfig == InitConfig /\ [][NextConfig]_vars

\* the steps of the thread that executes BirdListener.stop()
StopStep ==
    \/ StopStream
    \/ StopDrained
    \/ StopDeadline
    \/ WriterStop
    \/ WriterJoin
    \/ DispatcherJoin

\* The shutdown of a listener that is serving: both workers were started,
\* the stream is active and every chunk classifies to one detection.  The
\* thread that calls stop() is scheduled again and again; the capture
\* callback and the workers may run, starve or hang.
StopResults == { <<SparrowRow>> }

InitStop == InitServing /\ overlap_samples = 0

NextStop ==
    \/ StopSignal
    \/ StopStep
    \/ SaveChunk
    \/ DCheck
    \/ DGet
    \/ DTimeout
    \/ DPredict(StopResults)
    \/ DRow
    \/ DFinish
    \/ WriterStep

SpecStop == InitStop /\ [][NextStop]_vars

FairStop == SpecStop /\ WF_vars(StopStep)

\* the steps of the audio processing thread in the shutdown specification
StopDispatcherStep ==
    \/ DCheck
    \/ DGet
    \/ DTimeout
    \/ DPredict(StopResults)
    \/ DRow
    \/ DFinish

\* the shutdown with both workers scheduled again and again, every
\* classification call and every write returning
FairWorkers == SpecStop /\ WF_vars(StopDispatcherStep) /\ WF_vars(WriterStep)

\* BirdListener.stop called on a listener that is not serving: before run()
\* was ever called (main.py calls stop() in a `finally` for every listener
\* it constructed) or again after a stop() that returned
StopOutsideServing ==
    /\ lcPc \in {"constructed", "stopped"}
    /\ running' = FALSE
    /\ inFlightAtStop' = InFlight
    /\ stagedAtStop' = Range(audio_chunk_queue)
    /\ lcPc' = "stop_stream"
    /\ UNCHANGED <<accVars, stageVars, dVars, wVars>>
    /\ UNCHANGED <<stream_active, drain, wJoin, dJoin>>
    /\ UNCHANGED <<pendingAtStop, busyAtDeadline>>

\* The life of a listener from its construction: run() with a stream that
\* starts or fails to start, and stop() called in any state between calls.
NextLifecycle ==
    \/ RunStartWriter
    \/ RunStartDispatcher
    \/ RunListen
    \/ StopOutsideServing
    \/ NextStop

SpecLifecycle == Init /\ [][NextLifecycle]_vars

\* ------------------------------------------------------------ properties
ClassifiedChunks == {classified[i].chunk : i \in 1..Len(classified)}
FinishedChunks == ClassifiedChunks \ {dChunk}
DetectionsOf(c) == SelectSeq(db_write_queue, LAMBDA d : d.chunk = c)
StorageFailed == writeFailures > 0

\* C1: when the writer is stopped under non-failing storage, every detection
\* that was on the write queue or in the buffer at the stop signal is
\* committed by the time the connection has been closed (the writer thread
\* having ended within the join timeout of stop()).
C1_StopCommitsEnqueued ==
    (wPc = "exited" /\ wJoin = "joined" /\ ~StorageFailed)
    => pendingAtStop \subseteq Committed

\* C2: every detection produced from the chunk that was being analyzed when
\* BirdListener.stop() began is committed once stop() has returned and the
\* connection is closed, when storage did not fail, both threads ended
\* within their join timeouts and the writer committed all it was handed
\* before its own stop signal.
C2_InFlightDetectionsCommitted ==
    (/\ lcPc = "stopped"
     /\ dJoin = "joined"
     /\ wJoin = "joined"
     /\ wPc = "exited"
     /\ ~StorageFailed
     /\ pendingAtStop \subseteq Committed
     /\ inFlightAtStop # 0)
    => \A d \in AllDetections : d.chunk = inFlightAtStop => d \in Committed

\* C3: chunks waiting on the staged-chunk queue when stop() began are all
\* dequeued and classified and their files deleted, and the drain wait ends
\* with the queue empty, whenever the deadline did not pass while the audio
\* processing thread was still working.
C3_StagedChunksDrained ==
    (lcPc = "stopped" /\ dJoin = "joined" /\ ~busyAtDeadline /\ stagedAtStop # {})
    => /\ drain = "drained"
       /\ \A c \in stagedAtStop : c \in FinishedChunks /\ c \notin files

\* C4: when the store cannot be initialised, the failure reaches the caller
\* of run(): the audio processing thread and the stream are never started
\* and no chunk is staged.
C4_InitFailureStopsStartup ==
    wPc = "dead" => (dPc = "notstarted" /\ ~stream_active /\ nextChunk = 1)

\* C5: the temporary file of every chunk the audio processing thread has
\* finished with was removed by exactly one os.remove call and is gone,
\* on every path; the file of a chunk it has not finished with is still
\* there and was never removed.
C5_ChunkFileReleasedOnce ==
    \A c \in 1..Len(removeCalls) :
        IF c \in FinishedChunks
        THEN removeCalls[c] = 1 /\ c \notin files
        ELSE removeCalls[c] = 0 /\ c \in files

C5_Witness ==
    \E i, j \in 1..Len(classified) :
        /\ classified[i].raised
        /\ classified[j].rows = <<SparrowRow, BadRow>>
        /\ {classified[i].chunk, classified[j].chunk} \subseteq FinishedChunks
        /\ removeCalls[classified[i].chunk] = 1
        /\ removeCalls[classified[j].chunk] = 1

FailedChunks == {classified[i].chunk : i \in {j \in 1..Len(classified) : classified[j].raised}}

\* C6: a classifier error on one chunk yields no detection for that chunk,
\* the worker loop ends only when the run flag is cleared, and a chunk
\* waiting on the queue after an error is still classified unless the run
\* flag is cleared.
C6_ClassifierErrorContained ==
    /\ [](\A d \in AllDetections : d.chunk \notin FailedChunks)
    /\ [](dPc = "exited" => ~running)
    /\ \A c \in 1..MaxChunks :
         (FailedChunks # {} /\ c \in Range(audio_chunk_queue))
            ~> (c \in ClassifiedChunks \/ ~running)

C6_Witness ==
    /\ running
    /\ \E i, j \in 1..Len(classified) :
         /\ i < j
         /\ classified[i].raised
         /\ ~classified[j].raised
         /\ classified[j].chunk \in FinishedChunks
         /\ DetectionsOf(classified[i].chunk) = <<>>
         /\ DetectionsOf(classified[j].chunk) # <<>>

\* the interval, in seconds, each well-formed prediction row stands for
TrueInterval(row) ==
    CASE row.species = "Sparrow" -> <<0, 3>>
      [] row.species = "Robin" -> <<3, 6>>
      [] row.species = "Wren" -> <<60, 63>>
      [] row.species = "Owl" -> <<6, 3609>>
      [] OTHER -> <<0, 0>>

RECURSIVE ExpectedDetections(_, _, _)
ExpectedDetections(chunk, rows, i) ==
    IF i > Len(rows) THEN <<>>
    ELSE (IF rows[i].confidence > DetectionThreshold
          THEN << [chunk |-> chunk, idx |-> i, species |-> rows[i].species,
                   confidence |-> rows[i].confidence,
                   chunk_interval_sec |-> TrueInterval(rows[i])] >>
          ELSE <<>>) \o ExpectedDetections(chunk, rows, i + 1)

\* C7: for a chunk whose prediction rows are all well formed, analyze() has
\* put on the write queue exactly one detection per row with confidence
\* strictly above the threshold, in row order, with that row's species,
\* confidence and interval, and none for any other row.
C7_OneDetectionPerStrongPrediction ==
    \A i \in 1..Len(classified) :
        LET r == classified[i]
        IN (/\ ~r.raised
            /\ r.chunk \in FinishedChunks
            /\ \A j \in 1..Len(r.rows) : RowOk(r.rows[j]))
           => DetectionsOf(r.chunk) = ExpectedDetections(r.chunk, r.rows, 1)

C7_Witness ==
    \E i, j \in 1..Len(classified) :
        /\ classified[i].rows = <<SparrowRow, RobinRow>>
        /\ classified[i].chunk \in FinishedChunks
        /\ Len(DetectionsOf(classified[i].chunk)) = 1
        /\ DetectionsOf(classified[i].chunk)[1].species = "Sparrow"
        /\ DetectionsOf(classified[i].chunk)[1].confidence = 9
        /\ classified[j].rows = <<EdgeRow, OwlRow>>
        /\ classified[j].chunk \in FinishedChunks
        /\ Len(DetectionsOf(classified[j].chunk)) = 1

\* C8: whenever the samples fed so far are a multiple of chunk_samples, the
\* callback has emitted exactly fed / chunk_samples chunks, each of
\* chunk_samples samples.
C8_ChunkCountMatchesSamples ==
    fed % ChunkSamples = 0
    => /\ Len(emitted) = fed \div ChunkSamples
       /\ \A i \in 1..Len(emitted) : Len(emitted[i]) = ChunkSamples

\* C9: a single callback that starts from an empty buffer with a frame of
\* k * chunk_samples samples, k >= 2, emits exactly k chunks in that call,
\* in sample order, and does not raise.
C9_GiantFrameEmitsAllChunks ==
    [][(/\ buffer_pos = 0
        /\ fed' > fed
        /\ (fed' - fed) % ChunkSamples = 0
        /\ (fed' - fed) \div ChunkSamples >= 2)
       => /\ cbRaised' = cbRaised
          /\ Len(emitted') = Len(emitted) + ((fed' - fed) \div ChunkSamples)
          /\ \A k \in 1..((fed' - fed) \div ChunkSamples) :
               emitted'[Len(emitted) + k] =
                   [i \in 1..ChunkSamples |-> fed + (k - 1) * ChunkSamples + i]]_vars

SamplesOf(chunk) == Range(chunk) \ {0}

WGetStep == wPc = "get" /\ wPc' = "check" /\ db_write_queue # <<>>

\* a step in which the writer's get times out
WTimeoutStep == wPc = "get" /\ wPc' = "check" /\ db_write_queue = <<>>

\* a step that commits a transaction
CommitStep == Len(commits') = Len(commits) + 1

\* C11: with non-failing storage, the get that brings the batch to
\* batch_size detections commits exactly those detections, in the order
\* they were taken, as one transaction and empties the batch; a get that
\* leaves the batch below batch_size commits nothing, so no part of a
\* batch is committed on the way to batch_size.
C11_FullBatchOneCommit ==
    /\ [](writeFailures = 0 =>
            /\ Len(buffer) < w_batch_size
            /\ \A i \in 1..Len(commits) : Len(commits[i]) <= w_batch_size)
    /\ [][ (WGetStep /\ writeFailures' = 0) =>
          LET buf == buffer \o <<Head(db_write_queue)>>
          IN \/ /\ Len(buf) < w_batch_size
                /\ commits' = commits
                /\ buffer' = buf
             \/ /\ Len(buf) = w_batch_size
                /\ commits' = Append(commits, buf)
                /\ buffer' = <<>> ]_vars

\* a batch of 2 * batch_size detections was committed whole
C11_Witness ==
    /\ writeFailures = 0
    /\ w_batch_size = 2 * batch_size
    /\ commits # <<>>
    /\ Len(commits[1]) = w_batch_size

\* the rows of the store, in the order of their row ids
DurableRows == Flatten(commits)

\* no element occurs twice in the sequence
NoDuplicates(seq) == \A i, j \in 1..Len(seq) : seq[i] = seq[j] => i = j

\* C12: a flush is all-or-nothing: a row inserted by a flush attempt that
\* failed never becomes durable, so the store never holds two rows of one
\* detection.
C12_FlushAllOrNothing == NoDuplicates(DurableRows)

\* a step in which a batch write raises sqlite3.Error
FailedWriteStep == writeFailures' = writeFailures + 1

\* the batch a step of the writer hands to _write_batch
BatchAtStep == IF WGetStep THEN buffer \o <<Head(db_write_queue)>> ELSE buffer

\* a step at which the writer's code calls _write_batch on a non-empty batch:
\* the batch reached batch_size, a timeout found flush_interval elapsed, or
\* the loop was left after stop
FlushTriggerStep ==
    /\ BatchAtStep # <<>>
    /\ \/ WGetStep /\ Len(BatchAtStep) >= w_batch_size
       \/ WTimeoutStep /\ sinceFlush + QueueWait >= w_flush_interval * TicksPerSecond
       \/ wPc = "final" /\ wPc' = "close"

\* C13: a batch write that fails with a storage error leaves the batch as it
\* was, same detections in the same order, commits nothing and leaves the
\* writer in its loop; every later flush trigger (batch size, interval or
\* stop) attempts the whole retained batch together with what was received
\* since; the batch shrinks only by a successful commit that holds it.
C13_FailedFlushKeepsBatch ==
    /\ [][ FailedWriteStep =>
             /\ buffer' = BatchAtStep
             /\ commits' = commits
             /\ (wPc = "get" => wPc' = "check") ]_vars
    /\ [][ FlushTriggerStep =>
             \/ FailedWriteStep
             \/ CommitStep /\ commits' = Append(commits, pending \o BatchAtStep) ]_vars
    /\ [][ Len(buffer') < Len(buffer) =>
             /\ CommitStep
             /\ buffer' = <<>>
             /\ commits' = Append(commits, pending \o BatchAtStep) ]_vars

\* a full batch failed, was kept, and was committed at the next trigger
\* together with the detection received since
C13_Witness ==
    /\ writeFailures = 1
    /\ Len(commits) = 1
    /\ Cardinality(Range(commits[1])) = w_batch_size + 1
    /\ w_running

\* the writer is in its loop and stop has not been requested
WriterInLoop == w_running /\ wPc \in {"check", "get"}

\* C14: while the writer runs and no write has failed, a buffered detection
\* is never unflushed later than flush_interval plus one queue wait after
\* the last flush, however further detections arrive.
C14_FlushedWithinInterval ==
    (WriterInLoop /\ writeFailures = 0 /\ buffer # <<>>) =>
        sinceFlush <= w_flush_interval * TicksPerSecond + QueueWait

\* exactly one detection has been put on the write queue so far
OneDetection == Cardinality(AllDetections) = 1

\* C15: with batch_size > 1 and non-failing storage, while exactly one
\* detection has been put: the store never holds more than that one row in
\* one transaction; the loop commits it only on a timeout that finds
\* flush_interval elapsed since the last flush; a timeout with an empty
\* batch commits nothing; and unless stop is requested or more input
\* arrives, the detection does get committed.
C15_LoneDetectionFlushedByInterval ==
    /\ []((OneDetection /\ writeFailures = 0 /\ w_batch_size > 1) =>
             \/ commits = <<>>
             \/ commits = << <<Head(DurableRows)>> >> /\ buffer = <<>>)
    /\ [][ (OneDetection /\ writeFailures = 0 /\ wPc = "get" /\ CommitStep) =>
             /\ WTimeoutStep
             /\ sinceFlush + QueueWait >= w_flush_interval * TicksPerSecond
             /\ commits' = <<buffer>> ]_vars
    /\ [][ (WTimeoutStep /\ buffer = <<>>) =>
             /\ commits' = commits
             /\ pending' = pending
             /\ writeFailures' = writeFailures ]_vars
    /\ (OneDetection /\ wPc \in {"check", "get"}) ~>
          \/ Committed # {}
          \/ ~OneDetection
          \/ ~w_running
          \/ writeFailures > 0

\* the lone detection was committed by the interval flush, after an idle
\* timeout that came too early to flush
C15_Witness ==
    /\ OneDetection
    /\ Len(commits) = 1
    /\ Len(commits[1]) = 1
    /\ w_running
    /\ writeFailures = 0
    /\ w_flush_interval > 1

\* the detections the writer has taken off the write queue, among those that
\* were waiting or buffered when stop() was called
TakenOfPendingAtStop == pendingAtStop \ Range(db_write_queue)

\* C16: once stop is seen the writer goes through its final flush exactly
\* once and closes the connection only after it; with non-failing storage
\* the final flush commits whatever the batch holds, so when the loop has
\* been left, and when stop() returns with the writer thread joined, every
\* detection the writer took off the queue is in the store.
C16_FinalFlushThenClose ==
    /\ [][ /\ (wPc' = "close" /\ wPc # "close") => wPc = "final"
           /\ wPc = "close" => wPc' \in {"close", "exited"}
           /\ wPc = "exited" => wPc' = "exited"
           /\ (conn = "open" /\ conn' = "closed") => wPc = "close"
           /\ (wPc = "final" /\ wPc' = "close" /\ writeFailures' = writeFailures) =>
                 /\ buffer' = <<>>
                 /\ buffer # <<>> => commits' = Append(commits, pending \o buffer) ]_vars
    /\ []((wPc \in {"close", "exited"} /\ writeFailures = 0) =>
             /\ buffer = <<>>
             /\ TakenOfPendingAtStop \subseteq Committed)
    /\ []((lcPc = "stop_join" /\ wJoin = "joined" /\ writeFailures = 0) =>
             TakenOfPendingAtStop \subseteq Committed)

\* stop() returned after the final flush committed a batch smaller than
\* batch_size (the clock was not reset, so neither the batch size nor the
\* interval flushed it)
C16_Witness ==
    /\ lcPc = "stop_join"
    /\ wJoin = "joined"
    /\ writeFailures = 0
    /\ conn = "closed"
    /\ sinceFlush > 0
    /\ Len(commits) = 1
    /\ Len(commits[1]) < w_batch_size
    /\ Range(commits[1]) \subseteq pendingAtStop

\* d1 was put on the write queue before d2: chunks are analyzed in the
\* order they were staged and the rows of a chunk in the order of the
\* result array; a stand-alone writer gets its detections numbered
EnqueuedBefore(d1, d2) ==
    \/ d1.chunk < d2.chunk
    \/ d1.chunk = d2.chunk /\ d1.idx < d2.idx

\* C17: detections are persisted in the order they were enqueued: a row of
\* a detection enqueued earlier has a lower row id than a row of a
\* detection enqueued later, across batches and across retried flushes.
C17_PersistedInEnqueueOrder ==
    \A i, j \in 1..Len(DurableRows) :
        EnqueuedBefore(DurableRows[i], DurableRows[j]) => i < j


\* ------------------------------------------------------------ shutdown
\* a step in which the capture callback stages a chunk
StagingStep == nextChunk' = nextChunk + 1

\* C18: stop() proceeds in this order: capture is stopped before the
\* workers are told to stop, so no chunk is staged once the run flag is
\* cleared; then the wait for the staged-chunk queue ends; then the writer
\* is stopped; then the audio processing thread is joined.
C18_ShutdownOrder ==
    [][ /\ StagingStep => running
        /\ (drain = "pending" /\ drain' # "pending") => ~stream_active
        /\ (w_running /\ ~w_running') => drain # "pending"
        /\ (wJoin = "none" /\ wJoin' # "none") => ~w_running
        /\ (dJoin = "none" /\ dJoin' # "none") => wJoin # "none" ]_vars

\* stop() has been entered and has not returned
InStop == lcPc \in {"stop_stream", "stop_drain", "stop_writer", "stop_writer_join", "stop_join"}

\* C19: stop() always returns: each of its waits ends whether or not the
\* thing waited for happened, and a missed deadline (queue not drained,
\* writer or audio processing thread still alive) is recorded and nothing
\* else; the other threads are not required to take any step.
C19_StopReturns ==
    /\ InStop ~> lcPc = "stopped"
    /\ [][ /\ (lcPc = "stop_drain" /\ lcPc' # lcPc) =>
                 /\ lcPc' = "stop_writer"
                 /\ drain' = IF audio_chunk_queue = <<>> THEN "drained" ELSE "expired"
           /\ (lcPc = "stop_writer_join" /\ lcPc' # lcPc) =>
                 /\ lcPc' = "stop_join"
                 /\ wJoin' = IF WriterAlive THEN "timeout" ELSE "joined"
           /\ (lcPc = "stop_join" /\ lcPc' # lcPc) =>
                 /\ lcPc' = "stopped"
                 /\ dJoin' = IF DispatcherAlive THEN "timeout" ELSE "joined"
           /\ InStop => <<accVars, stageVars, dVars, wPc, buffer, commits>>' = <<accVars, stageVars, dVars, wPc, buffer, commits>>
                         \/ lcPc' = lcPc ]_vars

\* stop() returned although the queue never emptied, the writer thread was
\* still alive at its join and the audio processing thread hung in predict
C19_Witness ==
    /\ lcPc = "stopped"
    /\ drain = "expired"
    /\ wJoin = "timeout"
    /\ dJoin = "timeout"
    /\ dPc = "predict"
    /\ audio_chunk_queue # <<>>


\* ------------------------------------------------------ staging failure
\* a callback step whose staging of the completed chunk fails
StagingFailureStep == stageFailures' = stageFailures + 1

\* the chunks whose staging failed: emitted and never queued (no chunk leaves
\* the queue while only the capture callback runs)
DroppedChunks == (1..Len(emitted)) \ Range(audio_chunk_queue)

\* the leftover of the frame handed to the callback in this step
LeftoverAtStep == (fed' - fed) - (ChunkSamples - buffer_pos)

\* C20: a staging failure is contained in the capture path: the step puts
\* nothing on the staged-chunk queue, the staging error is not raised to
\* the callback (the only exception of such a step is the ValueError of an
\* oversized leftover) and the accumulator moves on to the next chunk; the
\* dropped chunk is never queued later, and the chunk emitted after a
\* dropped chunk starts with the sample right after the last sample of the
\* dropped chunk.
C20_StagingFailureContained ==
    /\ [][ StagingFailureStep =>
             /\ audio_chunk_queue' = audio_chunk_queue
             /\ cbRaised' # cbRaised => LeftoverAtStep > ChunkSamples
             /\ Len(emitted') = Len(emitted) + 1 ]_vars
    /\ [][ Range(audio_chunk_queue') \ Range(audio_chunk_queue) \subseteq {nextChunk} ]_vars
    /\ [](\A i \in DroppedChunks :
             i < Len(emitted) => emitted[i + 1][1] = emitted[i][ChunkSamples] + 1)


\* ------------------------------------------------ order of classification
\* the chunks handed to the classifier so far, in the order of the calls
ClassifiedOrder == [i \in 1..Len(classified) |-> classified[i].chunk]

\* C21: chunks are numbered as they are staged.  The classifier calls are
\* made for strictly increasing chunks, so in staging order and at most once
\* per chunk, also after a call that raised; each call is made by the one
\* audio processing thread for the chunk it holds, which is then neither on
\* the queue nor classified before; what is still queued was staged later
\* than everything classified.
C21_ClassifiedInStagingOrder ==
    /\ [](\A i, j \in 1..Len(classified) : i < j => ClassifiedOrder[i] < ClassifiedOrder[j])
    /\ [](\A c \in Range(audio_chunk_queue) :
             /\ c \notin ClassifiedChunks
             /\ c # dChunk
             /\ \A k \in ClassifiedChunks : k < c)
    /\ [](dPc = "predict" => dChunk \notin ClassifiedChunks)
    /\ [][ Len(classified') > Len(classified) =>
             /\ dPc = "predict" /\ dPc' # "predict"
             /\ Len(classified') = Len(classified) + 1
             /\ classified'[Len(classified')].chunk = dChunk ]_vars

\* two chunks were classified, the second after the call for the first
\* raised
C21_Witness ==
    /\ Len(classified) = 2
    /\ classified[1].raised
    /\ ClassifiedOrder = <<1, 2>>


\* ---------------------------------------------------------- cancellation
\* C22: cancellation is cooperative and bounded.  Once its run flag is
\* cleared a worker never enters another wait on its queue, so the audio
\* processing thread starts at most one more classification and the writer
\* takes at most one more detection; a classification under way runs to its
\* end and the writer leaves only through its final flush and close; no
\* step of stop() moves a worker; and with classifications and writes that
\* return, both workers end.
C22_CooperativeCancellation ==
    /\ [][ /\ (~running /\ dPc' = "get") => dPc = "get"
           /\ (~w_running /\ wPc' = "get") => wPc = "get"
           /\ dPc \in {"predict", "rows"} => dPc' \in {"predict", "rows", "check"}
           /\ (dPc' = "exited" /\ dPc # "exited") => (dPc = "check" /\ ~running)
           /\ (wPc' = "final" /\ wPc # "final") => (wPc = "check" /\ ~w_running)
           /\ (wPc' = "exited" /\ wPc # "exited") => wPc = "close"
           /\ lcPc' # lcPc => (dPc' = dPc /\ wPc' = wPc) ]_vars
    /\ ~running ~> dPc = "exited"
    /\ ~w_running ~> wPc \in {"exited", "dead"}

\* both workers ended after stop, the audio processing thread having
\* classified a chunk that was still queued when its flag was cleared and
\* the writer having committed a detection that was pending at its stop
C22_Witness ==
    /\ dPc = "exited"
    /\ wPc = "exited"
    /\ stagedAtStop \cap ClassifiedChunks # {}
    /\ pendingAtStop \cap Committed # {}

\* C23: a staged chunk has one owner at a time: while the capture path has
\* the temporary file of a chunk open, the chunk is not on the staged-chunk
\* queue, the audio processing thread does not hold it and its file has not
\* been removed; and os.remove is called at most once per chunk.
C23_ExclusiveOwnership ==
    /\ openHandle # 0 =>
         /\ openHandle \notin Range(audio_chunk_queue)
         /\ openHandle # dChunk
         /\ openHandle \in files
    /\ \A c \in 1..Len(removeCalls) : removeCalls[c] <= 1

\* C24: the writer of a started listener has the batch_size and the
\* flush_interval of the listener's config, and the defaults only for a key
\* the config does not have.
C24_WriterConfigured ==
    wPc # "notstarted" =>
        /\ w_batch_size =
               IF config.batch_size = 0 THEN batch_size ELSE config.batch_size
        /\ w_flush_interval =
               IF config.flush_interval = 0 THEN flush_interval ELSE config.flush_interval

\* C25: the samples are numbered in the order they are captured.  After any
\* sequence of callbacks with frames of at most chunk_samples samples, the
\* emitted chunks in order followed by the first _buffer_pos samples of the
\* buffer are exactly the samples 1..fed in order: none dropped, duplicated
\* or reordered.
C25_SampleConservation ==
    Flatten(emitted) \o SubSeq(audio_buffer, 1, buffer_pos) = [i \in 1..fed |-> i]

\* two chunks emitted, both by a frame that ran past the end of the buffer,
\* and a leftover in the buffer
C25_Witness ==
    /\ Len(emitted) = 2
    /\ buffer_pos = 2
    /\ fed = 2 * ChunkSamples + 2
    /\ audio_buffer[1] = fed - 1

\* C26: between callbacks with frames of at most chunk_samples samples the
\* cursor is inside the buffer, 0 <= _buffer_pos < chunk_samples: the buffer
\* is never left full, and every chunk has been emitted by the callback that
\* supplied its last sample, so the number of emitted chunks is the number
\* of whole chunks fed.
C26_CursorInsideBuffer ==
    /\ 0 <= buffer_pos
    /\ buffer_pos < ChunkSamples
    /\ fed = Len(emitted) * ChunkSamples + buffer_pos
    /\ cbRaised = 0

\* a frame that ended exactly at the end of the buffer emitted the chunk and
\* left the cursor at 0
C26_Witness ==
    /\ Len(emitted) = 1
    /\ fed = ChunkSamples
    /\ buffer_pos = 0
    /\ emitted[1] = <<1, 2, 3>>

\* C27: no temporary chunk file is orphaned: every existing file is on the
\* staged-chunk queue or is the chunk the audio processing thread holds (so
\* a failed staging leaves no file), and when stop() has returned and both
\* worker threads have ended no file is left.
C27_NoOrphanFile ==
    /\ \A f \in files : f \in Range(audio_chunk_queue) \/ f = InFlight
    /\ (lcPc = "stopped" /\ ~DispatcherAlive /\ ~WriterAlive) => files = {}

\* C28: nothing a flush raises ends the writer thread: whether the flush was
\* started by a full batch, by the idle timeout or after the loop, and
\* whether it raised a storage error or another exception, the thread goes
\* on with its loop and after stop reaches the close of the connection.  The
\* thread ends early only when opening the database fails.
C28_FlushErrorsContained ==
    [][ (wPc' = "dead" /\ wPc # "dead") => wPc = "init" ]_vars

\* C29: stop() never raises, whatever state the listener is in when it is
\* called: before run() and start() were ever called, after a stream that
\* failed to start, and a second time after a stop() that returned.
C29_StopNeverRaises == lcPc # "stop_raised"

\* C30: in the prototype listener consecutive chunks are contiguous: the
\* emitted chunks in order followed by the deque are exactly the captured
\* samples 1..fed, each once; so once a multiple of chunk_samples has been
\* captured, that many chunks have been emitted, whatever the frame sizes.
C30_PrototypeChunksContiguous ==
    /\ Flatten(emitted) \o audio_buffer = [i \in 1..fed |-> i]
    /\ fed % ChunkSamples = 0 => Len(emitted) = fed \div ChunkSamples

====
